---- MODULE Spec2Model ----
(***************************************************************************)
(* A model of network_flow/max_flow.py: the class MaximumFlow, its edge    *)
(* store (edge_list, adjacency_list), the level builder BFS, the two       *)
(* augmenters send_one_flow and DFS, the two run entry points              *)
(* edmonds_karp and dinic, the run-once guard and copy().                  *)
(*                                                                         *)
(* Python objects are references: an instance holds the addresses of its   *)
(* edge_list and adjacency_list, whose contents live in two heaps.  The    *)
(* lists distances, points and last are rebound to fresh lists by BFS and  *)
(* dinic before they are written, so they are kept by value.               *)
(*                                                                         *)
(* Granularity: a call of BFS, and the search part of send_one_flow / DFS  *)
(* (which writes no flow), is one step; every update of one edge pair      *)
(* (lines 69-71, lines 84-86) is one step.  Numbers are integers.          *)
(***************************************************************************)
EXTENDS Integers, Sequences, FiniteSets, TLC

\* ------------------------------------------------------------- bounds
\* vertices: the argument of MaximumFlow(vertices)
NumV == 3
\* capacities handed to add_edge are drawn from 0..MaxCap
MaxCap == 1
\* add_edge is called at most MaxEdges times with u # v on one instance
MaxEdges == 3
\* the same, for the callers that work on an instance and its copy in any
\* order, and where a run that never returns is looked for
MaxFewEdges == 1

Vertex == 0 .. (NumV - 1)
\* the original instance and the one made by copy()
Inst == {"G", "c"}
Algs == {"edmonds_karp", "dinic"}

\* float('inf'): larger than every finite flow of the bounded model; Plus
\* saturates at it (inf + x = inf), min and comparisons are the numeric ones.
INF == 2 * MaxEdges * (MaxCap + 1) + 1
Plus(a, b) == IF a = INF \/ b = INF THEN INF ELSE a + b
Min(a, b) == IF a <= b THEN a ELSE b

\* an unbound local variable / a call that has not returned
None == -1
EmptyList == [v \in {} |-> 0]

VARIABLES
    obj,              \* instance -> its fields (self.*)
    edge_lists,       \* address -> edge_list contents: Seq of [v, cap, flow]
    adjacency_lists,  \* address -> adjacency_list contents: vertex -> Seq of edge index
    pc,               \* where the one thread of control is
    call,             \* caller side: the latest call made, [op, self]
    frame,            \* locals of the run in progress: s, t, mf, f
    todo,             \* edge updates the returning recursion still has to apply
    ret,              \* caller side: instance -> the run called on it and what it returned
    raised            \* caller side: the latest call ended in the exception of line 121

vars == <<obj, edge_lists, adjacency_lists, pc, call, frame, todo, ret, raised>>

\* the instance whose method is executing (self)
cur == call.self

\* s, t, mf, f: the locals of edmonds_karp / dinic; pushed: the value the
\* returning frames of send_one_flow / DFS hand up
NoFrame == [s |-> None, t |-> None, mf |-> None, f |-> None, pushed |-> None]
NoRet == [alg |-> "none", s |-> None, t |-> None, value |-> None]

\* ------------------------------------------------------------- edge store
\* edge indices are 0-based as in the source; TLA+ sequences are 1-based
EdgeAt(el, idx) == el[idx + 1]
\* idx ^ 1
Xor1(idx) == IF idx % 2 = 0 THEN idx + 1 ELSE idx - 1

EL(i) == edge_lists[obj[i].edge_list]
AL(i) == adjacency_lists[obj[i].adjacency_list]

\* __init__
NewObject(addr) ==
    [vertices |-> NumV, edge_list |-> addr, adjacency_list |-> addr,
     distances |-> EmptyList, last |-> EmptyList, points |-> EmptyList,
     has_been_run |-> FALSE]

\* add_edge lines 110-113 on the list contents
add_edge_el(el, u, v, capacity, directed) ==
    el \o << [v |-> v, cap |-> capacity, flow |-> 0],
             [v |-> u, cap |-> IF directed THEN 0 ELSE capacity, flow |-> 0] >>

add_edge_al(al, n, u, v) ==
    [w \in DOMAIN al |->
        IF w = u THEN Append(al[w], n)
        ELSE IF w = v THEN Append(al[w], n + 1)
        ELSE al[w]]

\* ------------------------------------------------------------- BFS
RECURSIVE BFSScan(_, _, _, _, _)
BFSScan(el, adj, u, k, st) ==
    IF k > Len(adj) THEN st
    ELSE LET idx == adj[k]
             e == EdgeAt(el, idx)
         IN IF e.cap - e.flow > 0 /\ st.distances[e.v] = -1
            THEN BFSScan(el, adj, u, k + 1,
                    [distances |-> [st.distances EXCEPT ![e.v] = st.distances[u] + 1],
                     q |-> Append(st.q, e.v),
                     points |-> [st.points EXCEPT ![e.v] = <<u, idx>>]])
            ELSE BFSScan(el, adj, u, k + 1, st)

RECURSIVE BFSLoop(_, _, _, _)
BFSLoop(el, al, t, st) ==
    IF Len(st.q) = 0 THEN st
    ELSE LET u == Head(st.q)
             st1 == [st EXCEPT !.q = Tail(st.q)]
         IN IF u = t THEN st1
            ELSE BFSLoop(el, al, t, BFSScan(el, al[u], u, 1, st1))

BFS(el, al, s, t) ==
    LET st == BFSLoop(el, al, t,
                [distances |-> [v \in Vertex |-> IF v = s THEN 0 ELSE -1],
                 q |-> <<s>>,
                 points |-> [v \in Vertex |-> <<-1, -1>>]])
    IN [distances |-> st.distances, points |-> st.points,
        found |-> st.distances[t] # -1]

\* ------------------------------------------------------------- augmenters
\* One pending update of an edge pair: edge_list[idx][2] = flow;
\* edge_list[idx ^ 1][2] -= pushed.  flow is the value computed from the
\* flow read before the recursive call (lines 67/69 and 79/84).
FlowWrite(idx, e, pushed) == [idx |-> idx, flow |-> Plus(e.flow, pushed)]

\* a slip: line 71 / line 86 left out
ApplyWriteForwardOnly(el, w, pushed) ==
    [k \in DOMAIN el |->
        IF k = w.idx + 1 THEN [el[k] EXCEPT !.flow = w.flow] ELSE el[k]]

\* a slip of line 71 / line 86: += pushed for -= pushed
ApplyWriteSameSign(el, w, pushed) ==
    [k \in DOMAIN el |->
        IF k = w.idx + 1 THEN [el[k] EXCEPT !.flow = w.flow]
        ELSE IF k = Xor1(w.idx) + 1 THEN [el[k] EXCEPT !.flow = el[k].flow + pushed]
        ELSE el[k]]

ApplyWrite(el, w, pushed) ==
    [k \in DOMAIN el |->
        IF k = w.idx + 1 THEN [el[k] EXCEPT !.flow = w.flow]
        ELSE IF k = Xor1(w.idx) + 1 THEN [el[k] EXCEPT !.flow = el[k].flow - pushed]
        ELSE el[k]]

\* min(f, cap-flow) of line 68
send_bottleneck(f, e) == Min(f, e.cap - e.flow)

\* min(f, cap - flow) of line 82
dfs_bottleneck(f, e) == Min(f, e.cap - e.flow)

\* self.last[u] = i of line 78
Cursor(last, u, i) == [last EXCEPT ![u] = i]

\* send_one_flow: the recursion down the predecessor pointers computes the
\* bottleneck; the updates are applied while it returns, source side first.
RECURSIVE send_one_flow(_, _, _, _, _)
send_one_flow(el, points, s, t, f) ==
    IF s = t THEN [pushed |-> f, writes |-> <<>>]
    ELSE LET u == points[t][1]
             idx == points[t][2]
             e == EdgeAt(el, idx)
             r == send_one_flow(el, points, s, u, send_bottleneck(f, e))
         IN [pushed |-> r.pushed,
             writes |-> Append(r.writes, FlowWrite(idx, e, r.pushed))]

\* DFS with the per-vertex cursor last: the search only moves cursors; the
\* updates are applied while the successful recursion returns, sink side first.
RECURSIVE DFS(_, _, _, _, _, _, _)
RECURSIVE DFSLoop(_, _, _, _, _, _, _, _)
DFS(el, al, distances, last, u, t, f) ==
    IF u = t \/ f = 0 THEN [pushed |-> f, last |-> last, writes |-> <<>>]
    ELSE DFSLoop(el, al, distances, last, u, t, f, last[u])

DFSLoop(el, al, distances, last, u, t, f, i) ==
    IF i >= Len(al[u]) THEN [pushed |-> 0, last |-> last, writes |-> <<>>]
    ELSE LET last1 == Cursor(last, u, i)
             idx == al[u][i + 1]
             e == EdgeAt(el, idx)
         IN IF distances[e.v] # distances[u] + 1
            THEN DFSLoop(el, al, distances, last1, u, t, f, i + 1)
            ELSE LET r == DFS(el, al, distances, last1, e.v, t, dfs_bottleneck(f, e))
                 IN IF r.pushed # 0
                    THEN [pushed |-> r.pushed, last |-> r.last,
                          writes |-> Append(r.writes, FlowWrite(idx, e, r.pushed))]
                    ELSE DFSLoop(el, al, distances, r.last, u, t, f, i + 1)

\* a slip of line 163: the cursors are allocated once, not once per phase
ResetLastOnce(last) == IF last = EmptyList THEN [v \in Vertex |-> 0] ELSE last

\* dinic line 163: self.last = [0] * self.vertices
ResetLast(last) == [v \in Vertex |-> 0]

\* ------------------------------------------------------------- run controller
\* a slip: the guard sets the flag and never raises
assert_never_raises(self) ==
    [raised |-> FALSE, self |-> [self EXCEPT !.has_been_run = TRUE]]

\* assert_has_not_already_been_run: raises, or sets the flag
assert_has_not_already_been_run(self) ==
    IF self.has_been_run
    THEN [raised |-> TRUE, self |-> self]
    ELSE [raised |-> FALSE, self |-> [self EXCEPT !.has_been_run = TRUE]]

\* a copy that shares the lists of the original (copy.copy for deepcopy)
shallowcopy(self, fresh) == self

\* a copy that comes back Ready whatever the original was
deepcopy_ready(self, fresh) ==
    [self EXCEPT !.edge_list = fresh, !.adjacency_list = fresh,
                 !.has_been_run = FALSE]

\* copy(): deepcopy(self); fresh is the address of the new lists
deepcopy(self, fresh) ==
    [self EXCEPT !.edge_list = fresh, !.adjacency_list = fresh]

\* ------------------------------------------------------------- actions
Init ==
    /\ obj = ("G" :> NewObject("G"))
    /\ edge_lists = ("G" :> <<>>)
    /\ adjacency_lists = ("G" :> [v \in Vertex |-> <<>>])
    /\ pc = "idle"
    /\ call = [op |-> "__init__", self |-> "G"]
    /\ frame = NoFrame
    /\ todo = <<>>
    /\ ret = ("G" :> NoRet)
    /\ raised = FALSE

add_edge(i, u, v, capacity, directed) ==
    /\ pc = "idle"
    /\ i \in DOMAIN obj
    /\ IF u = v
       THEN UNCHANGED <<edge_lists, adjacency_lists>>
       ELSE /\ edge_lists' = [edge_lists EXCEPT ![obj[i].edge_list] =
                                 add_edge_el(@, u, v, capacity, directed)]
            /\ adjacency_lists' = [adjacency_lists EXCEPT ![obj[i].adjacency_list] =
                                      add_edge_al(@, Len(EL(i)), u, v)]
    /\ call' = [op |-> "add_edge", self |-> i]
    /\ raised' = FALSE
    /\ UNCHANGED <<obj, pc, frame, todo, ret>>

copy(i, j) ==
    /\ pc = "idle"
    /\ i \in DOMAIN obj
    /\ j \in Inst \ DOMAIN obj
    /\ obj' = obj @@ (j :> deepcopy(obj[i], j))
    /\ edge_lists' = edge_lists @@ (j :> EL(i))
    /\ adjacency_lists' = adjacency_lists @@ (j :> AL(i))
    /\ ret' = ret @@ (j :> NoRet)
    /\ call' = [op |-> "copy", self |-> i]
    /\ raised' = FALSE
    /\ UNCHANGED <<pc, frame, todo>>

\* the entry of edmonds_karp (lines 137-139) and of dinic (lines 159-161)
Enter(i, alg, s, t) ==
    /\ pc = "idle"
    /\ i \in DOMAIN obj
    /\ LET a == assert_has_not_already_been_run(obj[i])
       IN IF a.raised
          THEN /\ raised' = TRUE
               /\ UNCHANGED <<obj, pc, frame, ret>>
          ELSE /\ raised' = FALSE
               /\ obj' = [obj EXCEPT ![i] = a.self]
               /\ pc' = IF alg = "edmonds_karp" THEN "ek_loop" ELSE "dinic_loop"
               /\ frame' = [NoFrame EXCEPT !.s = s, !.t = t, !.mf = 0]
               /\ ret' = [ret EXCEPT ![i] = [alg |-> alg, s |-> s, t |-> t, value |-> None]]
    /\ call' = [op |-> alg, self |-> i]
    /\ UNCHANGED <<edge_lists, adjacency_lists, todo>>

edmonds_karp(i, s, t) == Enter(i, "edmonds_karp", s, t)

dinic(i, s, t) == Enter(i, "dinic", s, t)

\* a slip of line 145 / line 168: return f for return mf
ReturnsLastF(fr) == fr.f

\* return mf (lines 145 and 168)
ReturnValue(fr) == fr.mf

Return ==
    /\ ret' = [ret EXCEPT ![cur].value = ReturnValue(frame)]
    /\ pc' = "idle"
    /\ frame' = NoFrame

\* a slip of line 144: mf = f for mf += f
ek_overwrite(mf, f) == f

\* edmonds_karp line 144: mf += f
ek_accumulate(mf, f) == Plus(mf, f)

\* a slip of line 166: mf = f for mf += f
dinic_overwrite(mf, f) == f

\* dinic line 166: mf += f
dinic_accumulate(mf, f) == Plus(mf, f)

\* edmonds_karp line 140, and the call of line 141 up to its first flow update
ek_loop ==
    /\ pc = "ek_loop"
    /\ LET b == BFS(EL(cur), AL(cur), frame.s, frame.t)
           r == send_one_flow(EL(cur), b.points, frame.s, frame.t, INF)
       IN /\ obj' = [obj EXCEPT ![cur].distances = b.distances,
                                ![cur].points = b.points]
          /\ IF ~b.found
             THEN Return /\ UNCHANGED todo
             ELSE /\ todo' = r.writes
                  /\ frame' = [frame EXCEPT !.pushed = r.pushed]
                  /\ pc' = "send_one_flow"
                  /\ UNCHANGED ret
    /\ UNCHANGED <<edge_lists, adjacency_lists, call, raised>>

\* edmonds_karp lines 141-144, once send_one_flow has returned
ek_after ==
    /\ pc = "send_one_flow"
    /\ todo = <<>>
    /\ IF frame.pushed = 0
       THEN Return
       ELSE /\ frame' = [frame EXCEPT !.mf = ek_accumulate(frame.mf, frame.pushed),
                                      !.f = frame.pushed, !.pushed = None]
            /\ pc' = "ek_loop"
            /\ UNCHANGED ret
    /\ UNCHANGED <<obj, edge_lists, adjacency_lists, call, todo, raised>>

\* dinic line 162, and line 163 when the sink is reachable
dinic_loop ==
    /\ pc = "dinic_loop"
    /\ LET b == BFS(EL(cur), AL(cur), frame.s, frame.t)
       IN IF ~b.found
          THEN /\ obj' = [obj EXCEPT ![cur].distances = b.distances,
                                     ![cur].points = b.points]
               /\ Return
          ELSE /\ obj' = [obj EXCEPT ![cur].distances = b.distances,
                                     ![cur].points = b.points,
                                     ![cur].last = ResetLast(obj[cur].last)]
               /\ pc' = "dinic_call"
               /\ UNCHANGED <<frame, ret>>
    /\ UNCHANGED <<edge_lists, adjacency_lists, call, todo, raised>>

\* dinic lines 164 and 167: the call self.DFS(s, t) up to its first flow update
dinic_call ==
    /\ pc = "dinic_call"
    /\ LET r == DFS(EL(cur), AL(cur), obj[cur].distances, obj[cur].last,
                    frame.s, frame.t, INF)
       IN /\ obj' = [obj EXCEPT ![cur].last = r.last]
          /\ todo' = r.writes
          /\ frame' = [frame EXCEPT !.pushed = r.pushed]
    /\ pc' = "DFS"
    /\ UNCHANGED <<edge_lists, adjacency_lists, call, ret, raised>>

\* dinic lines 164-167, once DFS has returned: f = ...; while f != 0: mf += f
dinic_after ==
    /\ pc = "DFS"
    /\ todo = <<>>
    /\ IF frame.pushed # 0
       THEN /\ frame' = [frame EXCEPT !.mf = dinic_accumulate(frame.mf, frame.pushed),
                                      !.f = frame.pushed, !.pushed = None]
            /\ pc' = "dinic_call"
       ELSE /\ frame' = [frame EXCEPT !.f = 0, !.pushed = None]
            /\ pc' = "dinic_loop"
    /\ UNCHANGED <<obj, edge_lists, adjacency_lists, call, todo, ret, raised>>

\* one returning frame of send_one_flow (lines 69-72) or of DFS (lines 84-87)
push ==
    /\ pc \in {"send_one_flow", "DFS"}
    /\ todo # <<>>
    /\ edge_lists' = [edge_lists EXCEPT ![obj[cur].edge_list] =
                         ApplyWrite(@, Head(todo), frame.pushed)]
    /\ todo' = Tail(todo)
    /\ UNCHANGED <<obj, adjacency_lists, pc, call, frame, ret, raised>>

Step == ek_loop \/ ek_after \/ dinic_loop \/ dinic_call \/ dinic_after \/ push

\* ------------------------------------------------------------- callers
Ready(i) == i \in DOMAIN obj /\ ~obj[i].has_been_run
Room(i, n) == Len(EL(i)) < 2 * n

\* The documented use (class docstring): build one graph of at most n edge
\* pairs, then run once.
Caller(n) ==
    \/ /\ pc = "idle" /\ Ready("G") /\ Room("G", n)
       /\ \E u \in Vertex, v \in Vertex, c \in 0 .. MaxCap, d \in BOOLEAN :
             add_edge("G", u, v, c, d)
    \/ /\ pc = "idle" /\ Ready("G")
       /\ \E s \in Vertex, t \in Vertex : edmonds_karp("G", s, t)
    \/ /\ pc = "idle" /\ Ready("G")
       /\ \E s \in Vertex, t \in Vertex : dinic("G", s, t)
    \/ Step

Next == Caller(MaxEdges)

Spec == Init /\ [][Next]_vars

\* The program is sequential: a started run keeps executing.
NextFew == Caller(MaxFewEdges)

FairSpec == Init /\ [][NextFew]_vars /\ WF_vars(Step)

\* Any caller of an instance and its copy: every call in every order, reruns
\* and edges added after a run included.  The question (s, t) put to the
\* second instance is the one put to the first; a rerun takes any (s, t).
Asks(i, s, t) ==
    \/ ~Ready(i)
    \/ \A j \in DOMAIN obj : ret[j].alg = "none" \/ (ret[j].s = s /\ ret[j].t = t)

NextClone ==
    \/ /\ pc = "idle"
       /\ \E i \in DOMAIN obj :
             /\ Room(i, MaxFewEdges)
             /\ \E u \in Vertex, v \in Vertex, c \in 0 .. MaxCap, d \in BOOLEAN :
                   add_edge(i, u, v, c, d)
    \/ copy("G", "c")
    \/ /\ pc = "idle"
       /\ \E i \in DOMAIN obj, s \in Vertex, t \in Vertex :
             Asks(i, s, t) /\ edmonds_karp(i, s, t)
    \/ /\ pc = "idle"
       /\ \E i \in DOMAIN obj, s \in Vertex, t \in Vertex :
             Asks(i, s, t) /\ dinic(i, s, t)
    \/ Step

SpecClone == Init /\ [][NextClone]_vars

\* The what-if use (docstring of copy): build G, copy it, then ask both the
\* same question, G by edmonds_karp and the copy by dinic.
NextWhatIf ==
    \/ /\ pc = "idle" /\ "c" \notin DOMAIN obj /\ Room("G", MaxEdges)
       /\ \E u \in Vertex, v \in Vertex, c \in 0 .. MaxCap, d \in BOOLEAN :
             add_edge("G", u, v, c, d)
    \/ copy("G", "c")
    \/ /\ pc = "idle" /\ "c" \in DOMAIN obj /\ Ready("G")
       /\ \E s \in Vertex, t \in Vertex : edmonds_karp("G", s, t)
    \/ /\ pc = "idle" /\ Ready("c") /\ ret["G"].value # None
       /\ dinic("c", ret["G"].s, ret["G"].t)
    \/ Step

SpecWhatIf == Init /\ [][NextWhatIf]_vars

\* ------------------------------------------------------------- properties
Flow(el, idx) == EdgeAt(el, idx).flow
Cap(el, idx) == EdgeAt(el, idx).cap
Indices(el) == 0 .. (Len(el) - 1)

\* the run called on i has returned
Returned(i) == i \in DOMAIN obj /\ ret[i].value # None
\* this step is a call of edmonds_karp or dinic on i
RunCall(i) == pc = "idle" /\ call'.op \in Algs /\ call'.self = i
\* everything an instance stores between calls
Stored(i) == <<obj[i], EL(i), AL(i)>>

RECURSIVE SumFlow(_, _)
SumFlow(el, adj) ==
    IF adj = <<>> THEN 0 ELSE Flow(el, Head(adj)) + SumFlow(el, Tail(adj))

\* capacity of the cut (S, V \ S): every stored edge idx leads from the head
\* of its pair idx ^ 1 to its own head
RECURSIVE CutCap(_, _, _)
CutCap(el, S, n) ==
    IF n = 0 THEN 0
    ELSE CutCap(el, S, n - 1)
         + (IF el[Xor1(n - 1) + 1].v \in S /\ el[n].v \notin S THEN el[n].cap ELSE 0)

SetMin(S) == CHOOSE x \in S : \A y \in S : x <= y

\* the maximum s-t flow value, as the minimum capacity of an s-t cut
MinCut(el, s, t) ==
    SetMin({CutCap(el, S \cup {s}, Len(el)) : S \in SUBSET (Vertex \ {s, t})})

\* C1: once a run on an instance has returned, every later call of
\* edmonds_karp or dinic on it, with any s and t, raises and leaves the
\* fields, edge_list and adjacency_list of every instance as they were.
C1_RerunGuard ==
    [][\A i \in DOMAIN obj :
          (Returned(i) /\ RunCall(i))
             => /\ raised'
                /\ pc' = "idle"
                /\ ret' = ret
                /\ \A j \in DOMAIN obj : Stored(j)' = Stored(j)]_vars

\* a rerun of G after a run that moved flow has raised
C1_Witness ==
    /\ raised
    /\ call.self = "G"
    /\ Returned("G")
    /\ ret["G"].value > 0
    /\ \E k \in Indices(EL("G")) : Flow(EL("G"), k) > 0

\* C2 as stated: no run call on an instance that never ran (a copy
\* included) raises.
C2_CopyIsReady ==
    \A j \in DOMAIN obj : ret[j].alg = "none" => ~(raised /\ call.self = j)

\* C2 amended: copy() keeps the lifecycle state: the copy has the
\* has_been_run flag of the original, so the first run call on a copy
\* raises exactly if the original was Done when it was copied; an instance
\* that never ran is Done only as such a copy.
C2_CopyKeepsState ==
    [][/\ \A j \in DOMAIN obj' \ DOMAIN obj :
             /\ call'.op = "copy"
             /\ obj'[j].has_been_run <=> obj[call'.self].has_been_run
       /\ \A j \in DOMAIN obj :
             (ret[j].alg = "none" /\ RunCall(j)) => (raised' <=> obj[j].has_been_run)
       /\ \A j \in DOMAIN obj :
             (ret[j].alg = "none" /\ obj[j].has_been_run)
                => (j = "c" /\ obj["G"].has_been_run)]_vars

\* the first run call on a copy of a Done instance has raised
C2_Witness ==
    /\ "c" \in DOMAIN obj
    /\ raised
    /\ call.self = "c"
    /\ ret["c"].alg = "none"
    /\ Returned("G")

\* C3: no step of a call on one instance (add_edge, edmonds_karp, dinic,
\* copy) changes what another instance stores, and a run that returns
\* returns the maximum flow of its own instance's graph.
C3_CloneIndependence ==
    [][\A j \in DOMAIN obj :
          /\ call'.self # j => Stored(j)' = Stored(j)
          /\ (~Returned(j) /\ Returned(j)' /\ ret[j].s # ret[j].t)
                => ret'[j].value = MinCut(EL(j)', ret[j].s, ret[j].t)]_vars

\* the copy got an edge of its own and ran to a positive flow while the
\* original, with a different edge, is still Ready and carries no flow
C3_Witness ==
    /\ Returned("c")
    /\ ret["c"].value > 0
    /\ ~obj["G"].has_been_run
    /\ EL("G") # <<>>
    /\ EL("G")[1].v # EL("c")[1].v
    /\ \A k \in Indices(EL("G")) : Flow(EL("G"), k) = 0

\* C4: edmonds_karp(s, t) on one copy and dinic(s, t) on another copy of
\* the same graph return equal values (s # t).
C4_StrategyEquivalence ==
    (Returned("G") /\ Returned("c") /\ ret["G"].s # ret["G"].t)
       => ret["G"].value = ret["c"].value

\* both strategies returned on a graph where two augmentations were needed
C4_Witness ==
    /\ Returned("G") /\ ret["G"].alg = "edmonds_karp"
    /\ Returned("c") /\ ret["c"].alg = "dinic"
    /\ ret["c"].s = ret["G"].s /\ ret["c"].t = ret["G"].t
    /\ ret["G"].value > MaxCap
    /\ ret["c"].value > MaxCap

\* C5: the value either strategy returns (s # t) is the maximum s-t flow of
\* the graph, i.e. the minimum capacity of an s-t cut, whatever the order
\* of the add_edge calls.
C5_MaxFlow ==
    \A i \in DOMAIN obj :
       (Returned(i) /\ ret[i].s # ret[i].t)
          => ret[i].value = MinCut(EL(i), ret[i].s, ret[i].t)

\* the docstring's graph 0->1, 0->2, 1->2 with every capacity MaxCap:
\* the run from 0 to 2 has returned twice the capacity
C5_Witness ==
    /\ Returned("G")
    /\ ret["G"].s = 0 /\ ret["G"].t = 2
    /\ Len(EL("G")) = 6
    /\ EL("G")[1].v = 1 /\ EL("G")[3].v = 2 /\ EL("G")[5].v = 2
    /\ EL("G")[2].v = 0 /\ EL("G")[4].v = 0 /\ EL("G")[6].v = 1
    /\ \A k \in {1, 3, 5} : EL("G")[k].cap = MaxCap
    /\ \A k \in {2, 4, 6} : EL("G")[k].cap = 0
    /\ ret["G"].value = 2 * MaxCap

\* C6 as stated: every index i of edge_list has 0 <= flow[i] <= capacity[i].
C6_ZeroToCapacity ==
    \A i \in DOMAIN obj : \A k \in Indices(EL(i)) :
       0 <= Flow(EL(i), k) /\ Flow(EL(i), k) <= Cap(EL(i), k)

\* C6 amended: every index i of edge_list has
\* -capacity[i ^ 1] <= flow[i] <= capacity[i]; for the forward edge of a
\* directed pair that is 0 <= flow[i] <= capacity[i].
C6_CapacityRespect ==
    \A i \in DOMAIN obj : \A k \in Indices(EL(i)) :
       /\ Flow(EL(i), k) <= Cap(EL(i), k)
       /\ 0 - Cap(EL(i), Xor1(k)) <= Flow(EL(i), k)

\* in the middle of a run an edge is filled to its capacity, its pair
\* carries the negated flow, and a second update is pending
C6_Witness ==
    /\ pc \in {"send_one_flow", "DFS"}
    /\ todo # <<>>
    /\ \E k \in Indices(EL(cur)) :
          /\ Flow(EL(cur), k) > 0
          /\ Flow(EL(cur), k) = Cap(EL(cur), k)
          /\ Flow(EL(cur), Xor1(k)) < 0

\* C7: after every add_edge and every update of an edge pair, every index i
\* has flow[i] + flow[i ^ 1] = 0.
C7_ReversePair ==
    \A i \in DOMAIN obj : \A k \in Indices(EL(i)) :
       Flow(EL(i), k) + Flow(EL(i), Xor1(k)) = 0

\* between two updates of one augmentation: the first pair carries flow
\* and the second is pending
C7_Witness ==
    /\ pc \in {"send_one_flow", "DFS"}
    /\ todo # <<>>
    /\ \E k \in Indices(EL(cur)) : Flow(EL(cur), k) < 0

\* C8: after a run from s to t # s has returned, the flows of
\* adjacency_list[v] sum to 0 for every v other than s and t, and those of
\* adjacency_list[s] sum to the returned value.
C8_Conservation ==
    \A i \in DOMAIN obj :
       (Returned(i) /\ ret[i].s # ret[i].t)
          => /\ \A v \in Vertex \ {ret[i].s, ret[i].t} : SumFlow(EL(i), AL(i)[v]) = 0
             /\ SumFlow(EL(i), AL(i)[ret[i].s]) = ret[i].value

\* a run has returned a positive flow part of which passes a third vertex
C8_Witness ==
    /\ Returned("G")
    /\ ret["G"].value > 0
    /\ \E v \in Vertex \ {ret["G"].s, ret["G"].t} :
          \E n \in 1 .. Len(AL("G")[v]) : Flow(EL("G"), AL("G")[v][n]) > 0

\* C9: every started run returns.
C9_Terminates == (pc # "idle") ~> (pc = "idle")

\* an edge (u, v) of the level graph with residual capacity leads on from S
LevelStep(el, al, distances, S) ==
    S \cup {EdgeAt(el, al[u][n]).v : <<u, n>> \in
              {x \in S \X (1 .. Len(el)) :
                  /\ x[2] <= Len(al[x[1]])
                  /\ LET e == EdgeAt(el, al[x[1]][x[2]])
                     IN /\ e.cap - e.flow > 0
                        /\ distances[e.v] = distances[x[1]] + 1}}

RECURSIVE LevelReach(_, _, _, _)
LevelReach(el, al, distances, S) ==
    LET S1 == LevelStep(el, al, distances, S)
    IN IF S1 = S THEN S ELSE LevelReach(el, al, distances, S1)

\* C10: when a phase of dinic ends (DFS from the source returned 0), the
\* level graph of the phase's BFS has no path from s to t over edges with
\* residual capacity, and if a next phase starts, its BFS puts the sink
\* strictly farther from the source.
C10_BlockingFlow ==
    [][(pc = "dinic_loop" /\ frame.f = 0)
          => /\ frame.t \notin LevelReach(EL(cur), AL(cur), obj[cur].distances, {frame.s})
             /\ pc' = "dinic_call"
                   => obj'[cur].distances[frame.t] > obj[cur].distances[frame.t]]_vars

\* a second phase has started after a first one that moved flow
C10_Witness ==
    /\ pc = "dinic_call"
    /\ frame.f = 0
    /\ frame.mf > 0
    /\ obj[cur].distances[frame.t] = 2

====
